---- MODULE Spec2Model ----
(***************************************************************************)
(* ScanInfo.make of elements_imaging/scan.py: reading a ScanImage scan and *)
(* storing its header row (ScanInfo), its per-field rows (ScanInfo.Field)  *)
(* and its relative file paths (ScanInfo.ScanFile).                         *)
(*                                                                         *)
(* Floats are modelled by integers (microns, degrees, frames); strings     *)
(* that are parsed (file paths) are sequences of one-character strings;    *)
(* a nullable column or an attribute that may be missing holds <<>> (NULL, *)
(* attribute absent) or <<v>>.                                              *)
(***************************************************************************)
EXTENDS Integers, Sequences, FiniteSets, TLC

VARIABLES
    root_data_dir,    \* what get_root_data_dir() returns
    image_files,      \* key -> what get_scan_image_files(key) returns
    reader,           \* key -> what scanreader.read_scan does on the key's files
    ScanInfo,         \* the ScanInfo table: a set of header rows
    Field,            \* the ScanInfo.Field table, rows in insertion order
    ScanFile,         \* the ScanInfo.ScanFile table, rows in insertion order
    pc,               \* position of the running make: idle, read, header, fields, files
    key,              \* make's argument, <<>> when no make runs
    scan_filenames,   \* make's local scan_filenames
    scan,             \* make's local scan, <<>> before it is read
    outcome,          \* key -> how the last make on the key ended
    statements        \* the insert statements issued so far, in order

vars == <<root_data_dir, image_files, reader, ScanInfo, Field, ScanFile,
          pc, key, scan_filenames, scan, outcome, statements>>

environment == <<root_data_dir, image_files, reader>>

-----------------------------------------------------------------------------
(* Bounds of the explored inputs. *)

\* largest number of fields (multi-ROI) or scanning depths (single-plane)
MaxFields == 3

\* largest number of files of one scan
MaxFiles == 2

\* file paths are the root string followed by at most this many characters
MaxSuffix == 1

\* the scan keys; the first one carries the varied acquisitions
Keys == {"scan1", "scan2"}

FocusKey == "scan1"

-----------------------------------------------------------------------------
(* Python values. *)

NULL == <<>>

Some(v) == <<v>>

\* getattr(obj, name, default) on an attribute that may be absent
Getattr(attr, default) == IF attr = <<>> THEN default ELSE attr

\* range(n) as the sequence 0, 1, ..., n-1
Range(n) == [i \in 1..n |-> i - 1]

SeqsUpTo(S, n) == UNION {[1..m -> S] : m \in 0..n}

-----------------------------------------------------------------------------
(* pathlib.PurePosixPath on strings given as sequences of characters. *)

Slash == "/"

Dot == "."

RECURSIVE LeadingSlashes(_)
LeadingSlashes(s) ==
    IF s = <<>> \/ Head(s) # Slash THEN 0 ELSE 1 + LeadingSlashes(Tail(s))

\* the anchor of a posix path: none, "/" or (exactly two leading slashes) "//"
Anchor(s) ==
    LET n == LeadingSlashes(s)
    IN  IF n = 0 THEN <<>> ELSE IF n = 2 THEN <<Slash, Slash>> ELSE <<Slash>>

RECURSIVE UpToSlash(_)
UpToSlash(s) ==
    IF s = <<>> \/ Head(s) = Slash THEN <<>> ELSE <<Head(s)>> \o UpToSlash(Tail(s))

\* the components between slashes, empty ones and "." dropped
RECURSIVE Components(_)
Components(s) ==
    IF s = <<>> THEN <<>>
    ELSE LET head == UpToSlash(s)
             rest == IF Len(head) >= Len(s) THEN <<>>
                     ELSE SubSeq(s, Len(head) + 2, Len(s))
         IN  (IF head = <<>> \/ head = <<Dot>> THEN <<>> ELSE <<head>>)
                 \o Components(rest)

\* pathlib.Path(s).parts
Parts(s) ==
    (IF Anchor(s) = <<>> THEN <<>> ELSE <<Anchor(s)>>) \o Components(s)

\* whether Path.relative_to(other) returns (TRUE) or raises ValueError (FALSE)
IsRelativeTo(parts, other) ==
    /\ Len(other) <= Len(parts)
    /\ SubSeq(parts, 1, Len(other)) = other

\* relative_to off by one: the last component of other is kept
RelativeToKeepsLast(parts, other) == SubSeq(parts, Len(other), Len(parts))

\* Path.relative_to(other), where it returns
RelativeTo(parts, other) == SubSeq(parts, Len(other) + 1, Len(parts))

RECURSIVE JoinWithSlash(_)
JoinWithSlash(parts) ==
    IF parts = <<>> THEN <<>>
    ELSE IF Len(parts) = 1 THEN parts[1]
    ELSE parts[1] \o <<Slash>> \o JoinWithSlash(Tail(parts))

\* Path.as_posix() of a relative path
AsPosix(parts) ==
    IF parts = <<>> THEN <<Dot>> ELSE JoinWithSlash(parts)

\* pathlib.Path(a) / b
JoinPath(a, b) ==
    IF Anchor(b) # <<>> THEN Parts(b) ELSE Parts(a) \o Parts(b)

-----------------------------------------------------------------------------
(* The scan objects scanreader.read_scan returns. *)

\* acquisition-wide header values
HeaderChoices ==
    { [motor_position_at_zero |-> <<10, 20, 0>>, num_frames |-> 100,
       num_channels |-> 2, fps |-> 30, is_bidirectional |-> TRUE,
       seconds_per_line |-> [num |-> 63, den |-> 1000000],
       temporal_fill_fraction |-> 7, microns_per_degree |-> 15],
      [motor_position_at_zero |-> <<1, 2, 3>>, num_frames |-> 0,
       num_channels |-> 1, fps |-> 15, is_bidirectional |-> FALSE,
       seconds_per_line |-> [num |-> 1, den |-> 8000],
       temporal_fill_fraction |-> 9, microns_per_degree |-> 2] }

\* one ROI field of a multi-ROI scan with its per-field attributes
FieldChoices ==
    { [x |-> 1, y |-> 2, depth |-> 0, height |-> 4, width |-> 6,
       height_in_microns |-> 40, width_in_microns |-> 60, offsets |-> 71],
      [x |-> 3, y |-> -1, depth |-> 5, height |-> 8, width |-> 2,
       height_in_microns |-> 80, width_in_microns |-> 20, offsets |-> 72] }

\* one scanning depth of a single-plane scan with its delay image
PlaneChoices ==
    { [depth |-> 0, offsets |-> 81],
      [depth |-> 5, offsets |-> 82],
      [depth |-> 10, offsets |-> 83] }

\* image size attributes of a single-plane scan; some formats carry no
\* image_height_in_microns / image_width_in_microns and no num_rois
ImageChoices ==
    { [image_height |-> 256, image_width |-> 512,
       image_height_in_microns |-> NULL, image_width_in_microns |-> NULL,
       num_rois |-> NULL],
      [image_height |-> 128, image_width |-> 64,
       image_height_in_microns |-> Some(300), image_width_in_microns |-> Some(150),
       num_rois |-> Some(4)] }

MultiROIScan(h, fs, nrois) ==
    [ is_multiROI |-> TRUE,
      num_fields |-> Len(fs),
      num_scanning_depths |-> Cardinality({fs[i].depth : i \in 1..Len(fs)}),
      num_rois |-> Some(nrois),
      header |-> h,
      fields |-> [i \in 1..Len(fs) |-> [x |-> fs[i].x, y |-> fs[i].y, depth |-> fs[i].depth]],
      field_heights |-> [i \in 1..Len(fs) |-> fs[i].height],
      field_widths |-> [i \in 1..Len(fs) |-> fs[i].width],
      field_heights_in_microns |-> [i \in 1..Len(fs) |-> fs[i].height_in_microns],
      field_widths_in_microns |-> [i \in 1..Len(fs) |-> fs[i].width_in_microns],
      field_offsets |-> [i \in 1..Len(fs) |-> fs[i].offsets],
      scanning_depths |-> <<>>,
      image |-> CHOOSE im \in ImageChoices : im.num_rois = NULL ]

SinglePlaneScan(h, ps, im) ==
    [ is_multiROI |-> FALSE,
      num_fields |-> Len(ps),
      num_scanning_depths |-> Len(ps),
      num_rois |-> im.num_rois,
      header |-> h,
      fields |-> <<>>,
      field_heights |-> <<>>,
      field_widths |-> <<>>,
      field_heights_in_microns |-> <<>>,
      field_widths_in_microns |-> <<>>,
      field_offsets |-> [i \in 1..Len(ps) |-> ps[i].offsets],
      scanning_depths |-> [i \in 1..Len(ps) |-> ps[i].depth],
      image |-> im ]

Scans ==
    {MultiROIScan(h, fs, n) :
        h \in HeaderChoices, fs \in SeqsUpTo(FieldChoices, MaxFields), n \in {1, 2}}
    \cup
    {SinglePlaneScan(h, ps, im) :
        h \in HeaderChoices, ps \in SeqsUpTo(PlaneChoices, MaxFields), im \in ImageChoices}

\* the scan of every key but the focus key
BaseScan ==
    SinglePlaneScan(CHOOSE h \in HeaderChoices : h.num_frames = 100,
                    <<[depth |-> 0, offsets |-> 81]>>,
                    CHOOSE im \in ImageChoices : im.num_rois = NULL)

\* read_scan returns a scan or raises
Readers == [ok : {TRUE}, scan : Scans] \cup [ok : {FALSE}, scan : {BaseScan}]

-----------------------------------------------------------------------------
(* The file paths the linking module returns. *)

PathChars == {Slash, Dot, "d"}

Roots == { <<Slash>>, <<Slash, "d">>, <<Slash, "d", Slash>> }

\* root followed by at most MaxSuffix characters
PathsAt(root) == {root \o t : t \in SeqsUpTo(PathChars, MaxSuffix)}

FileLists(root) == SeqsUpTo(PathsAt(root), MaxFiles) \ {<<>>}

\* the files of every key but the focus key: under every root
BaseFiles == << <<Slash, "d", Slash, "d">> >>

-----------------------------------------------------------------------------
(* The rows make builds. *)

\* scan._degrees_to_microns(degrees)
degrees_to_microns(s, degrees) == degrees * s.header.microns_per_degree

\* seconds_per_line * 1e6
usecs_per_line(s) ==
    (s.header.seconds_per_line.num * 1000000) \div s.header.seconds_per_line.den

\* the reader's ROI count stored whatever the mode
nroisOfReader(s) == IF s.num_rois = NULL THEN 0 ELSE s.num_rois[1]

\* nrois=scan.num_rois if scan.is_multiROI else 0
ReadsNumRois(s) == s.is_multiROI

nrois(s) == IF s.is_multiROI THEN s.num_rois[1] ELSE 0

\* the row of self.insert1(dict(key, ...))
HeaderRow(k, s) ==
    [ key |-> k,
      nfields |-> s.num_fields,
      nchannels |-> s.header.num_channels,
      nframes |-> s.header.num_frames,
      ndepths |-> s.num_scanning_depths,
      x |-> s.header.motor_position_at_zero[1],
      y |-> s.header.motor_position_at_zero[2],
      fps |-> s.header.fps,
      bidirectional |-> s.header.is_bidirectional,
      usecs_per_line |-> usecs_per_line(s),
      fill_fraction |-> s.header.temporal_fill_fraction,
      nrois |-> nrois(s) ]

x_zero(s) == s.header.motor_position_at_zero[1]

y_zero(s) == s.header.motor_position_at_zero[2]

z_zero(s) == s.header.motor_position_at_zero[3]

\* field_y taken from the first field instead of field field_id
MultiROIFieldRowFirstField(k, s, field_id) ==
    [ key |-> k,
      field_idx |-> field_id,
      px_height |-> s.field_heights[field_id + 1],
      px_width |-> s.field_widths[field_id + 1],
      um_height |-> Some(s.field_heights_in_microns[field_id + 1]),
      um_width |-> Some(s.field_widths_in_microns[field_id + 1]),
      field_x |-> x_zero(s) + degrees_to_microns(s, s.fields[field_id + 1].x),
      field_y |-> y_zero(s) + degrees_to_microns(s, s.fields[1].y),
      field_z |-> z_zero(s) + s.fields[field_id + 1].depth,
      delay_image |-> s.field_offsets[field_id + 1] ]

\* one row of the multi-ROI branch; field_id is 0-based, sequences 1-based
MultiROIFieldRow(k, s, field_id) ==
    [ key |-> k,
      field_idx |-> field_id,
      px_height |-> s.field_heights[field_id + 1],
      px_width |-> s.field_widths[field_id + 1],
      um_height |-> Some(s.field_heights_in_microns[field_id + 1]),
      um_width |-> Some(s.field_widths_in_microns[field_id + 1]),
      field_x |-> x_zero(s) + degrees_to_microns(s, s.fields[field_id + 1].x),
      field_y |-> y_zero(s) + degrees_to_microns(s, s.fields[field_id + 1].y),
      field_z |-> z_zero(s) + s.fields[field_id + 1].depth,
      delay_image |-> s.field_offsets[field_id + 1] ]

\* field_z without the motor z
PlaneFieldRowNoMotorZ(k, s, plane_idx) ==
    [ key |-> k,
      field_idx |-> plane_idx,
      px_height |-> s.image.image_height,
      px_width |-> s.image.image_width,
      um_height |-> Getattr(s.image.image_height_in_microns, NULL),
      um_width |-> Getattr(s.image.image_width_in_microns, NULL),
      field_x |-> x_zero(s),
      field_y |-> y_zero(s),
      field_z |-> s.scanning_depths[plane_idx + 1],
      delay_image |-> s.field_offsets[plane_idx + 1] ]

\* the depths taken from the far end of scanning_depths
PlaneFieldRowReversed(k, s, plane_idx) ==
    [ key |-> k,
      field_idx |-> plane_idx,
      px_height |-> s.image.image_height,
      px_width |-> s.image.image_width,
      um_height |-> Getattr(s.image.image_height_in_microns, NULL),
      um_width |-> Getattr(s.image.image_width_in_microns, NULL),
      field_x |-> x_zero(s),
      field_y |-> y_zero(s),
      field_z |-> z_zero(s) + s.scanning_depths[Len(s.scanning_depths) - plane_idx],
      delay_image |-> s.field_offsets[plane_idx + 1] ]

\* one row of the single-plane branch
PlaneFieldRow(k, s, plane_idx) ==
    [ key |-> k,
      field_idx |-> plane_idx,
      px_height |-> s.image.image_height,
      px_width |-> s.image.image_width,
      um_height |-> Getattr(s.image.image_height_in_microns, NULL),
      um_width |-> Getattr(s.image.image_width_in_microns, NULL),
      field_x |-> x_zero(s),
      field_y |-> y_zero(s),
      field_z |-> z_zero(s) + s.scanning_depths[plane_idx + 1],
      delay_image |-> s.field_offsets[plane_idx + 1] ]

\* the two counts taken for each other
FieldIndicesSwapped(s) ==
    IF s.is_multiROI THEN Range(s.num_scanning_depths) ELSE Range(s.num_fields)

\* the indices the comprehension of the taken branch runs over
FieldIndices(s) ==
    IF s.is_multiROI THEN Range(s.num_fields) ELSE Range(s.num_scanning_depths)

\* the list given to self.Field.insert
FieldRows(k, s) ==
    LET idx == FieldIndices(s)
    IN  [i \in 1..Len(idx) |->
            IF s.is_multiROI THEN MultiROIFieldRow(k, s, idx[i])
            ELSE PlaneFieldRow(k, s, idx[i])]

\* pathlib.Path(f).relative_to(root).as_posix()
RelativePosix(f, root) == AsPosix(RelativeTo(Parts(f), Parts(root)))

\* whether the comprehension over scan_filenames raises ValueError
OutsideRoot(files, root) ==
    \E i \in 1..Len(files) : ~IsRelativeTo(Parts(files[i]), Parts(root))

\* scan_files
ScanFiles(files, root) == [i \in 1..Len(files) |-> RelativePosix(files[i], root)]

\* the list given to self.ScanFile.insert
ScanFileRows(k, files, root) ==
    LET fs == ScanFiles(files, root)
    IN  [i \in 1..Len(fs) |-> [key |-> k, file_path |-> fs[i]]]

\* a batch insert is refused whole when two of its rows share a primary key
HasDuplicates(rows) ==
    \E i, j \in 1..Len(rows) : i < j /\ rows[i] = rows[j]

RowsOf(table, k) == SelectSeq(table, LAMBDA r : r.key = k)

HeaderOf(k) == {r \in ScanInfo : r.key = k}

-----------------------------------------------------------------------------
(* The state machine. *)

Init ==
    /\ \E r \in Roots :
          \E fl \in FileLists(r) \cup {BaseFiles}, rd \in Readers :
             /\ fl = BaseFiles \/ rd = [ok |-> TRUE, scan |-> BaseScan]
             /\ root_data_dir = r
             /\ image_files = [k \in Keys |-> IF k = FocusKey THEN fl ELSE BaseFiles]
             /\ reader = [k \in Keys |->
                            IF k = FocusKey THEN rd
                            ELSE [ok |-> TRUE, scan |-> BaseScan]]
    /\ ScanInfo = {}
    /\ Field = <<>>
    /\ ScanFile = <<>>
    /\ pc = "idle"
    /\ key = <<>>
    /\ scan_filenames = <<>>
    /\ scan = <<>>
    /\ outcome = [k \in Keys |-> "none"]
    /\ statements = <<>>

\* make returns or raises: its locals go away
Ends(k, how) ==
    /\ pc' = "idle"
    /\ key' = <<>>
    /\ scan_filenames' = <<>>
    /\ scan' = <<>>
    /\ outcome' = [outcome EXCEPT ![k] = how]

\* make(key) is called
Call(k) ==
    /\ pc = "idle"
    /\ pc' = "read"
    /\ key' = <<k>>
    /\ outcome' = [outcome EXCEPT ![k] = "running"]
    /\ UNCHANGED <<environment, ScanInfo, Field, ScanFile, scan_filenames, scan, statements>>

\* the header insert left out: make goes from the read to the Field batch
ReadScanThenFields ==
    /\ pc = "read"
    /\ reader[key[1]].ok
    /\ scan_filenames' = image_files[key[1]]
    /\ scan' = Some(reader[key[1]].scan)
    /\ pc' = "fields"
    /\ UNCHANGED <<environment, ScanInfo, Field, ScanFile, key, outcome, statements>>

\* scan_filenames = get_scan_image_files(key); scan = scanreader.read_scan(...)
ReadScan ==
    /\ pc = "read"
    /\ reader[key[1]].ok
    /\ scan_filenames' = image_files[key[1]]
    /\ scan' = Some(reader[key[1]].scan)
    /\ pc' = "header"
    /\ UNCHANGED <<environment, ScanInfo, Field, ScanFile, key, outcome, statements>>

\* read_scan raises
ReadScanRaises ==
    /\ pc = "read"
    /\ ~reader[key[1]].ok
    /\ Ends(key[1], "ReadError")
    /\ UNCHANGED <<environment, ScanInfo, Field, ScanFile, statements>>

\* self.insert1(...) raises: the key is already in ScanInfo, or the row
\* reads an attribute the scan does not have
InsertHeaderRefused(k, s) ==
    \/ HeaderOf(k) # {}
    \/ ReadsNumRois(s) /\ s.num_rois = NULL

InsertHeader ==
    /\ pc = "header"
    /\ ~InsertHeaderRefused(key[1], scan[1])
    /\ ScanInfo' = ScanInfo \cup {HeaderRow(key[1], scan[1])}
    /\ statements' = Append(statements, [table |-> "ScanInfo", key |-> key[1]])
    /\ pc' = "fields"
    /\ UNCHANGED <<environment, Field, ScanFile, key, scan_filenames, scan, outcome>>

InsertHeaderRaises ==
    /\ pc = "header"
    /\ InsertHeaderRefused(key[1], scan[1])
    /\ Ends(key[1], IF HeaderOf(key[1]) # {} THEN "DuplicateError" ELSE "AttributeError")
    /\ UNCHANGED <<environment, ScanInfo, Field, ScanFile, statements>>

\* self.Field.insert([...]) of the branch scan.is_multiROI selects
InsertFields ==
    /\ pc = "fields"
    /\ Field' = Field \o FieldRows(key[1], scan[1])
    /\ statements' = Append(statements, [table |-> "Field", key |-> key[1]])
    /\ pc' = "files"
    /\ UNCHANGED <<environment, ScanInfo, ScanFile, key, scan_filenames, scan, outcome>>

\* a path is not under root: relative_to raises before any file row is inserted
RelativeToRaises ==
    /\ pc = "files"
    /\ OutsideRoot(scan_filenames, root_data_dir)
    /\ Ends(key[1], "ValueError")
    /\ UNCHANGED <<environment, ScanInfo, Field, ScanFile, statements>>

\* two files have the same relative path: the batch is refused
InsertFilesRaises ==
    /\ pc = "files"
    /\ ~OutsideRoot(scan_filenames, root_data_dir)
    /\ HasDuplicates(ScanFileRows(key[1], scan_filenames, root_data_dir))
    /\ Ends(key[1], "DuplicateError")
    /\ UNCHANGED <<environment, ScanInfo, Field, ScanFile, statements>>

\* self.ScanFile.insert([...]); make returns
InsertFiles ==
    /\ pc = "files"
    /\ ~OutsideRoot(scan_filenames, root_data_dir)
    /\ ~HasDuplicates(ScanFileRows(key[1], scan_filenames, root_data_dir))
    /\ ScanFile' = ScanFile \o ScanFileRows(key[1], scan_filenames, root_data_dir)
    /\ statements' = Append(statements, [table |-> "ScanFile", key |-> key[1]])
    /\ Ends(key[1], "done")
    /\ UNCHANGED <<environment, ScanInfo, Field>>

Next ==
    \/ \E k \in Keys : Call(k)
    \/ ReadScan
    \/ ReadScanRaises
    \/ InsertHeader
    \/ InsertHeaderRaises
    \/ InsertFields
    \/ RelativeToRaises
    \/ InsertFilesRaises
    \/ InsertFiles

Spec == Init /\ [][Next]_vars

-----------------------------------------------------------------------------
(* What the tables hold for a key, read back from the state. *)

\* the insert statements issued for key k, as the sequence of their tables
StatementsOf(k) ==
    LET mine == SelectSeq(statements, LAMBDA st : st.key = k)
    IN  [i \in 1..Len(mine) |-> mine[i].table]

\* the Field batch of key k has been inserted
FieldsWritten(k) == \E i \in 1..Len(statements) :
    statements[i] = [table |-> "Field", key |-> k]

\* a make on key k has run to its end without raising
Completed(k) == \E i \in 1..Len(statements) :
    statements[i] = [table |-> "ScanFile", key |-> k]

\* a make on key k has ended, by returning or by raising
Ended(k) == outcome[k] \notin {"none", "running"}

\* the number of Field rows the spec asks for
ExpectedFields(s) == IF s.is_multiROI THEN s.num_fields ELSE s.num_scanning_depths

NothingWritten(k) ==
    /\ HeaderOf(k) = {}
    /\ RowsOf(Field, k) = <<>>
    /\ RowsOf(ScanFile, k) = <<>>

AllWritten(k) ==
    /\ reader[k].ok
    /\ HeaderOf(k) # {}
    /\ Len(RowsOf(Field, k)) = ExpectedFields(reader[k].scan)
    /\ Len(RowsOf(ScanFile, k)) = Len(image_files[k])

IsAscending(seq) == \A i, j \in 1..Len(seq) : i < j => seq[i] <= seq[j]

-----------------------------------------------------------------------------
(* The claims. *)

\* C1: once make has completed on a key, the field_idx values of the key's
\* Field rows are exactly 0..n-1, each on exactly one row, with
\* n = num_fields in multi-ROI mode and n = num_scanning_depths otherwise.
C1_FieldIndicesExact ==
    \A k \in Keys : Completed(k) =>
        LET s == reader[k].scan
            n == IF s.is_multiROI THEN s.num_fields ELSE s.num_scanning_depths
            rows == RowsOf(Field, k)
        IN  /\ Len(rows) = n
            /\ \A i \in 0..(n - 1) :
                  Cardinality({j \in 1..Len(rows) : rows[j].field_idx = i}) = 1

\* a completed multi-ROI scan of three fields on fewer than three depths
C1_Witness ==
    /\ Completed(FocusKey)
    /\ reader[FocusKey].scan.is_multiROI
    /\ reader[FocusKey].scan.num_fields = 3
    /\ reader[FocusKey].scan.num_scanning_depths < 3
    /\ Len(RowsOf(Field, FocusKey)) = 3

\* C2: when a make on a key has ended, by returning or by raising at any
\* step, either the header row, all N Field rows and all M ScanFile rows of
\* the key are written or none of them is.
C2_NoPartialWrites ==
    \A k \in Keys : Ended(k) => AllWritten(k) \/ NothingWritten(k)

\* C3: when a file of the key is not under root, make raises the path error
\* and no header row, no Field row and no ScanFile row of the key is written.
C3_OutsideRootWritesNothing ==
    \A k \in Keys :
        (Ended(k) /\ reader[k].ok /\ OutsideRoot(image_files[k], root_data_dir)) =>
            /\ outcome[k] = "ValueError"
            /\ NothingWritten(k)

\* C4: make does not return normally on a scan with zero fields and
\* num_frames > 0 (it fails with a consistency error instead of leaving a
\* header row with nframes > 0 and no Field rows).
C4_ZeroFieldsWithFramesFails ==
    \A k \in Keys :
        (reader[k].ok /\ ExpectedFields(reader[k].scan) = 0
                      /\ reader[k].scan.header.num_frames > 0) =>
            /\ outcome[k] # "done"
            /\ ~Completed(k)

\* C5: in single-plane mode, once the Field batch of a key is written, for
\* every depth index i in 0..num_scanning_depths-1 the row with field_idx = i
\* has field_x = x_zero, field_y = y_zero and
\* field_z = z_zero + scanning_depths[i].
C5_SinglePlaneGeometry ==
    \A k \in Keys : (FieldsWritten(k) /\ ~reader[k].scan.is_multiROI) =>
        LET s == reader[k].scan
            zero == s.header.motor_position_at_zero
            rows == RowsOf(Field, k)
        IN  \A i \in 0..(s.num_scanning_depths - 1) :
                \E j \in 1..Len(rows) :
                    /\ rows[j].field_idx = i
                    /\ rows[j].field_x = zero[1]
                    /\ rows[j].field_y = zero[2]
                    /\ rows[j].field_z = zero[3] + s.scanning_depths[i + 1]

\* the scenario of the spec: motor zero (10, 20, 0), depths 0, 5, 10
C5_Witness ==
    /\ FieldsWritten(FocusKey)
    /\ ~reader[FocusKey].scan.is_multiROI
    /\ reader[FocusKey].scan.header.motor_position_at_zero = <<10, 20, 0>>
    /\ reader[FocusKey].scan.scanning_depths = <<0, 5, 10>>
    /\ LET rows == RowsOf(Field, FocusKey)
       IN  /\ Len(rows) = 3
           /\ [i \in 1..3 |-> rows[i].field_z] = <<0, 5, 10>>
           /\ \A i \in 1..3 : rows[i].field_x = 10 /\ rows[i].field_y = 20

\* C6: in multi-ROI mode, once the Field batch of a key is written, for every
\* field index i in 0..num_fields-1 the row with field_idx = i is computed
\* from field i alone: field_x = x_zero + degrees_to_microns(fields[i].x),
\* field_y = y_zero + degrees_to_microns(fields[i].y),
\* field_z = z_zero + fields[i].depth, and the sizes and the delay image are
\* the i-th entries of the per-field attributes.
C6_MultiROIGeometry ==
    \A k \in Keys : (FieldsWritten(k) /\ reader[k].scan.is_multiROI) =>
        LET s == reader[k].scan
            zero == s.header.motor_position_at_zero
            rows == RowsOf(Field, k)
        IN  \A i \in 0..(s.num_fields - 1) :
                \E j \in 1..Len(rows) :
                    /\ rows[j].field_idx = i
                    /\ rows[j].field_x = zero[1] + s.header.microns_per_degree * s.fields[i + 1].x
                    /\ rows[j].field_y = zero[2] + s.header.microns_per_degree * s.fields[i + 1].y
                    /\ rows[j].field_z = zero[3] + s.fields[i + 1].depth
                    /\ rows[j].px_height = s.field_heights[i + 1]
                    /\ rows[j].px_width = s.field_widths[i + 1]
                    /\ rows[j].um_height = Some(s.field_heights_in_microns[i + 1])
                    /\ rows[j].um_width = Some(s.field_widths_in_microns[i + 1])
                    /\ rows[j].delay_image = s.field_offsets[i + 1]

\* two fields at distinct angles, written with distinct centres
C6_Witness ==
    /\ FieldsWritten(FocusKey)
    /\ reader[FocusKey].scan.is_multiROI
    /\ reader[FocusKey].scan.num_fields = 2
    /\ reader[FocusKey].scan.fields[1].x # reader[FocusKey].scan.fields[2].x
    /\ LET rows == RowsOf(Field, FocusKey)
       IN  /\ Len(rows) = 2
           /\ rows[1].field_x # rows[2].field_x
           /\ rows[1].field_y # rows[2].field_y

\* C7: every header row has nrois = 0 when the scan is not multi-ROI, whatever
\* num_rois the scan object carries and also when it carries none (the
\* attribute is not read, so no AttributeError ends make), and
\* nrois = scan.num_rois when the scan is multi-ROI.
C7_NumRois ==
    /\ \A r \in ScanInfo :
          LET s == reader[r.key].scan
          IN  r.nrois = IF s.is_multiROI THEN s.num_rois[1] ELSE 0
    /\ \A k \in Keys : outcome[k] # "AttributeError"

\* header rows of a single-plane scan that carries num_rois = 4 and of one
\* that has no num_rois attribute
C7_Witness ==
    /\ \E r \in ScanInfo :
          /\ ~reader[r.key].scan.is_multiROI
          /\ reader[r.key].scan.num_rois = Some(4)
          /\ r.nrois = 0
    /\ \E r \in ScanInfo :
          /\ ~reader[r.key].scan.is_multiROI
          /\ reader[r.key].scan.num_rois = NULL
          /\ r.nrois = 0

\* C8: once make has completed on a key, its ScanFile rows are one per input
\* file, in input order; each stored path joined back onto root is the input
\* path (as pathlib paths), and each stored path is relative: it has no
\* anchor and root is not a prefix of it.
C8_RelativePathRoundTrip ==
    \A k \in Keys : Completed(k) =>
        LET files == image_files[k]
            rows == RowsOf(ScanFile, k)
        IN  /\ Len(rows) = Len(files)
            /\ \A i \in 1..Len(files) :
                  /\ JoinPath(root_data_dir, rows[i].file_path) = Parts(files[i])
                  /\ Anchor(rows[i].file_path) = <<>>
                  /\ ~IsRelativeTo(Parts(rows[i].file_path), Parts(root_data_dir))

\* two files under a root, one of them in a directory below it
C8_Witness ==
    /\ Completed(FocusKey)
    /\ Len(image_files[FocusKey]) = 2
    /\ \E i \in 1..2 : RowsOf(ScanFile, FocusKey)[i].file_path = <<"d">>
    /\ Len(Parts(root_data_dir)) = 2

\* C9: in single-plane mode with scanning_depths in ascending order, field_z
\* of the written rows is non-decreasing in field_idx.
C9_FieldZMonotone ==
    \A k \in Keys :
        (FieldsWritten(k) /\ ~reader[k].scan.is_multiROI
                          /\ IsAscending(reader[k].scan.scanning_depths)) =>
            LET rows == RowsOf(Field, k)
            IN  \A i, j \in 1..Len(rows) :
                    rows[i].field_idx < rows[j].field_idx =>
                        rows[i].field_z <= rows[j].field_z

\* three strictly ascending depths above a non-zero motor z
C9_Witness ==
    /\ FieldsWritten(FocusKey)
    /\ ~reader[FocusKey].scan.is_multiROI
    /\ reader[FocusKey].scan.scanning_depths = <<0, 5, 10>>
    /\ reader[FocusKey].scan.header.motor_position_at_zero = <<1, 2, 3>>
    /\ Len(RowsOf(Field, FocusKey)) = 3
    /\ RowsOf(Field, FocusKey)[1].field_z < RowsOf(Field, FocusKey)[3].field_z

\* the order of make's three inserts
WriteOrder == <<"ScanInfo", "Field", "ScanFile">>

\* C10, the state part: per key the statements issued are a prefix of header,
\* Field batch, ScanFile batch, and rows exist only after the rows before them
C10_OrderedState ==
    \A k \in Keys :
        /\ Len(StatementsOf(k)) <= 3
        /\ StatementsOf(k) = SubSeq(WriteOrder, 1, Len(StatementsOf(k)))
        /\ RowsOf(Field, k) # <<>> => HeaderOf(k) # {}
        /\ RowsOf(ScanFile, k) # <<>> => HeaderOf(k) # {} /\ FieldsWritten(k)
        /\ (HeaderOf(k) # {}) = (Len(StatementsOf(k)) >= 1)

\* C10, the step part: the rows of every key other than the running make's
\* key are the same before and after the step
C10_OtherKeysUnchanged ==
    \A k \in Keys :
        (key = <<>> \/ key[1] # k) =>
            /\ HeaderOf(k)' = HeaderOf(k)
            /\ RowsOf(Field, k)' = RowsOf(Field, k)
            /\ RowsOf(ScanFile, k)' = RowsOf(ScanFile, k)

\* C10: make writes the header row, then the Field batch, then the ScanFile
\* batch: in every state Field or ScanFile rows of a key exist only if its
\* header row exists, ScanFile rows only if its Field batch was written; and
\* no step changes the rows of a key other than the one make runs on.
C10_WriteOrder == []C10_OrderedState /\ [][C10_OtherKeysUnchanged]_vars

\* both keys fully written, one make after the other
C10_Witness ==
    \A k \in Keys :
        /\ StatementsOf(k) = WriteOrder
        /\ HeaderOf(k) # {}
        /\ RowsOf(Field, k) # <<>>
        /\ RowsOf(ScanFile, k) # <<>>

====
